---- MODULE Spec2Model ----
(***************************************************************************)
(* Model of the ncm-cli report pipeline: lib/report/util.js (filterReport, *)
(* moduleList, moduleSort) and the report command that builds, ranks,      *)
(* partitions and emits the per-package risk records.                      *)
(*                                                                         *)
(* JavaScript strings that the code compares, concatenates or parses       *)
(* (package names, versions, whitelist keys) are sequences of UTF-16 code  *)
(* units: "a" is <<97>>, "1.10.0" is <<49,46,49,48,46,48>>.  Strings the   *)
(* code only tests for equality against literals (group, severity label,   *)
(* finding name) are TLA+ strings.                                         *)
(***************************************************************************)
EXTENDS Integers, Sequences, FiniteSets, TLC

VARIABLES
    pc,          \* position of the run / of the utility call
    argv,        \* [json, long, help] flags of the report command
    env,         \* [isNested, githubMode]: package.json comparison, CI context
    exitCode,    \* process.exitCode (0 while unset)
    aborted,     \* which fatal catch block ran: "no", "identity", "analyzer"
    calls,       \* collaborators dispatched so far
    wlFailed,    \* the whitelist try-block reached its catch
    whitelist,   \* the Set of "name@version" strings
    data,        \* analyzer output (sequence of packages)
    hasFailures, \* run-level failure flag
    ranked,      \* pkgScores as moduleSort left it, before the partition
    pkgScores,   \* flagged partition (after the partition step)
    whitelisted, \* whitelisted partition
    out,         \* sequence of emissions of the run
    report,      \* utility specs: the report array passed in (sorted in place)
    options,     \* utility specs: <<o>> for FilterOptions o, <<>> when undefined
    result,      \* utility specs: value returned by the call
    printed      \* utility specs: lines printed by moduleList

vars == <<pc, argv, env, exitCode, aborted, calls, wlFailed, whitelist, data,
          hasFailures, ranked, pkgScores, whitelisted, out, report, options, result, printed>>

runVars == <<argv, env, exitCode, aborted, calls, wlFailed, whitelist, data,
             hasFailures, ranked, pkgScores, whitelisted, out>>

utilVars == <<report, options, result, printed>>

-----------------------------------------------------------------------------
(* Bounds *)

MaxPkgs == 2       \* packages in one analyzer output
MaxSortLen == 3    \* records in a report handed to moduleSort
MaxListLen == 2    \* records in a report handed to moduleList / filterReport

-----------------------------------------------------------------------------
(* Strings as code-unit sequences *)

\* JS `a < b` on strings: lexicographic by code unit, a proper prefix is less.
RECURSIVE StrLt(_, _)
StrLt(a, b) ==
    IF b = <<>> THEN FALSE
    ELSE IF a = <<>> THEN TRUE
    ELSE IF Head(a) # Head(b) THEN Head(a) < Head(b)
    ELSE StrLt(Tail(a), Tail(b))

IsDigit(c) == c >= 48 /\ c <= 57

\* index of the first occurrence of code unit c in s, 0 when there is none
RECURSIVE FirstIndex(_, _, _)
FirstIndex(s, c, i) ==
    IF i > Len(s) THEN 0
    ELSE IF s[i] = c THEN i
    ELSE FirstIndex(s, c, i + 1)

\* s.split(c)
RECURSIVE Split(_, _)
Split(s, c) ==
    LET i == FirstIndex(s, c, 1)
    IN  IF i = 0 THEN <<s>>
        ELSE <<SubSeq(s, 1, i - 1)>> \o Split(SubSeq(s, i + 1, Len(s)), c)

\* decimal value of a string of digits
RECURSIVE ParseNat(_)
ParseNat(s) ==
    IF s = <<>> THEN 0
    ELSE 10 * ParseNat(SubSeq(s, 1, Len(s) - 1)) + (s[Len(s)] - 48)

IsNumeric(s) == s # <<>> /\ \A i \in 1..Len(s) : IsDigit(s[i])

-----------------------------------------------------------------------------
(* semver.compare, as called by moduleSort *)

\* new SemVer(v): build metadata is cut off and ignored, the prerelease is
\* the dot-separated identifiers after the first "-", the main version is
\* major.minor.patch.
SemVer(v) ==
    LET plus   == FirstIndex(v, 43, 1)
        noBld  == IF plus = 0 THEN v ELSE SubSeq(v, 1, plus - 1)
        dash   == FirstIndex(noBld, 45, 1)
        main   == IF dash = 0 THEN noBld ELSE SubSeq(noBld, 1, dash - 1)
        pre    == IF dash = 0 THEN <<>>
                  ELSE Split(SubSeq(noBld, dash + 1, Len(noBld)), 46)
        nums   == Split(main, 46)
    IN  [major |-> ParseNat(nums[1]),
         minor |-> ParseNat(nums[2]),
         patch |-> ParseNat(nums[3]),
         prerelease |-> pre]

\* compareIdentifiers(a, b): numeric identifiers compare as numbers and sort
\* before alphanumeric ones, which compare as strings.
CompareIdentifiers(a, b) ==
    LET anum == IsNumeric(a)
        bnum == IsNumeric(b)
    IN  IF anum /\ bnum
        THEN (IF ParseNat(a) = ParseNat(b) THEN 0
              ELSE IF ParseNat(a) < ParseNat(b) THEN -1 ELSE 1)
        ELSE IF a = b THEN 0
        ELSE IF anum /\ ~bnum THEN -1
        ELSE IF bnum /\ ~anum THEN 1
        ELSE IF StrLt(a, b) THEN -1 ELSE 1

CompareNat(a, b) == IF a = b THEN 0 ELSE IF a < b THEN -1 ELSE 1

\* SemVer.compareMain
CompareMain(x, y) ==
    IF CompareNat(x.major, y.major) # 0 THEN CompareNat(x.major, y.major)
    ELSE IF CompareNat(x.minor, y.minor) # 0 THEN CompareNat(x.minor, y.minor)
    ELSE CompareNat(x.patch, y.patch)

\* SemVer.comparePre: a release outranks any of its prereleases; otherwise
\* identifiers are compared left to right and the shorter list is lower.
RECURSIVE ComparePreFrom(_, _, _)
ComparePreFrom(p, q, i) ==
    IF i > Len(p) /\ i > Len(q) THEN 0
    ELSE IF i > Len(q) THEN 1
    ELSE IF i > Len(p) THEN -1
    ELSE IF CompareIdentifiers(p[i], q[i]) = 0 THEN ComparePreFrom(p, q, i + 1)
    ELSE CompareIdentifiers(p[i], q[i])

ComparePre(x, y) ==
    IF x.prerelease # <<>> /\ y.prerelease = <<>> THEN -1
    ELSE IF x.prerelease = <<>> /\ y.prerelease # <<>> THEN 1
    ELSE IF x.prerelease = <<>> /\ y.prerelease = <<>> THEN 0
    ELSE ComparePreFrom(x.prerelease, y.prerelease, 1)

SemverCompare(a, b) ==
    LET x == SemVer(a)
        y == SemVer(b)
    IN  IF CompareMain(x, y) # 0 THEN CompareMain(x, y) ELSE ComparePre(x, y)

-----------------------------------------------------------------------------
(* Severity model *)

SEVERITY_RMAP == <<"NONE", "LOW", "MEDIUM", "HIGH", "CRITICAL">>

\* Array.prototype.indexOf: 0-based, -1 when absent
IndexOf(arr, x) ==
    IF \E i \in 1..Len(arr) : arr[i] = x
    THEN (CHOOSE i \in 1..Len(arr) : arr[i] = x /\ \A j \in 1..(i - 1) : arr[j] # x) - 1
    ELSE -1

-----------------------------------------------------------------------------
(* report(): the loop that turns analyzer output into records *)

\* the group test of the scan: only these three groups are counted
CountedGroup(group) ==
    ~(group # "compliance" /\ group # "security" /\ group # "risk")

\* One pass over a package's scores.  acc carries the loop's locals:
\* maxSeverity, license ({} is <<>>, a score s is <<s>>), failures, and
\* whether the run-level flag was raised by this package.
RECURSIVE ScanScores(_, _, _)
ScanScores(scores, i, acc) ==
    IF i > Len(scores) THEN acc
    ELSE LET score == scores[i]
             severityValue == IndexOf(SEVERITY_RMAP, score.severity)
         IN  IF ~CountedGroup(score.group)
             THEN ScanScores(scores, i + 1, acc)
             ELSE ScanScores(scores, i + 1,
                    [maxSeverity |-> IF severityValue > acc.maxSeverity
                                     THEN severityValue ELSE acc.maxSeverity,
                     failures    |-> IF score.pass = FALSE
                                     THEN Append(acc.failures, score)
                                     ELSE acc.failures,
                     failed      |-> acc.failed \/ score.pass = FALSE,
                     license     |-> IF score.name = "license"
                                     THEN <<score>> ELSE acc.license])

Scan(scores) ==
    ScanScores(scores, 1,
               [maxSeverity |-> 0, failures |-> <<>>, failed |-> FALSE,
                license |-> <<>>])

\* variant: the version test is missing
NoVersionNever(version) == FALSE

\* `!version`: the empty string (like undefined and null) is falsy
NoVersion(version) == version = <<>>

\* getLicenseScore(license) === 0, i.e. !license.pass; the pass property of
\* the initial {} is undefined, which is falsy
LicenseScoreIsZero(license) ==
    IF license = <<>> THEN TRUE ELSE ~license[1].pass

\* the self-reference skip
SkipNested(isNested, maxSeverity) == isNested /\ maxSeverity # 0

\* the record pushed for one package, after the license override
Record(pkg, scan) ==
    [name        |-> pkg.name,
     version     |-> pkg.version,
     published   |-> pkg.published,
     maxSeverity |-> IF LicenseScoreIsZero(scan.license) THEN 4
                     ELSE scan.maxSeverity,
     failures    |-> scan.failures,
     license     |-> scan.license,
     scores      |-> pkg.scores]

\* the whole for-loop over data: the records pushed, and hasFailures
RECURSIVE BuildRecords(_, _, _, _)
BuildRecords(d, isNested, i, acc) ==
    IF i > Len(d) THEN acc
    ELSE LET pkg  == d[i]
             scan == Scan(pkg.scores)
             flag == acc.hasFailures \/ scan.failed
         IN  IF NoVersion(pkg.version) \/ SkipNested(isNested, scan.maxSeverity)
             THEN BuildRecords(d, isNested, i + 1,
                               [records |-> acc.records, hasFailures |-> flag])
             ELSE BuildRecords(d, isNested, i + 1,
                               [records |-> Append(acc.records, Record(pkg, scan)),
                                hasFailures |-> flag])

-----------------------------------------------------------------------------
(* moduleSort *)

\* variant: versions compared as plain strings instead of by semver
ModuleCmpLexicographic(a, b) ==
    IF a.maxSeverity > b.maxSeverity THEN -1
    ELSE IF b.maxSeverity > a.maxSeverity THEN 1
    ELSE IF StrLt(a.name, b.name) THEN -1
    ELSE IF StrLt(b.name, a.name) THEN 1
    ELSE IF StrLt(a.version, b.version) THEN -1
    ELSE IF StrLt(b.version, a.version) THEN 1
    ELSE 0

\* the comparator handed to report.sort
ModuleCmp(a, b) ==
    IF a.maxSeverity > b.maxSeverity THEN -1
    ELSE IF b.maxSeverity > a.maxSeverity THEN 1
    ELSE IF StrLt(a.name, b.name) THEN -1
    ELSE IF StrLt(b.name, a.name) THEN 1
    ELSE SemverCompare(a.version, b.version)

\* Array.prototype.sort is a stable sort: x goes after every element that
\* does not compare greater than it.
RECURSIVE SortInsert(_, _)
SortInsert(s, x) ==
    IF s = <<>> THEN <<x>>
    ELSE IF ModuleCmp(s[Len(s)], x) > 0
         THEN Append(SortInsert(SubSeq(s, 1, Len(s) - 1), x), s[Len(s)])
         ELSE Append(s, x)

RECURSIVE SortPrefix(_, _)
SortPrefix(s, n) ==
    IF n = 0 THEN <<>> ELSE SortInsert(SortPrefix(s, n - 1), s[n])

moduleSort(r) == SortPrefix(r, Len(r))

-----------------------------------------------------------------------------
(* filterReport *)

\* pkg.scores.some(s => s.group === 'compliance' && !s.pass)
HasComplianceFailure(pkg) ==
    \E i \in 1..Len(pkg.scores) :
        pkg.scores[i].group = "compliance" /\ ~pkg.scores[i].pass

\* variant: strictly above the minimum severity
HasSecurityFailureStrict(pkg, minimumSeverity) ==
    \E i \in 1..Len(pkg.failures) :
        /\ pkg.failures[i].group = "security"
        /\ IndexOf(SEVERITY_RMAP, pkg.failures[i].severity) > minimumSeverity

\* pkg.failures.some(f => f.group === 'security' && rank(f) >= minimumSeverity)
HasSecurityFailure(pkg, minimumSeverity) ==
    \E i \in 1..Len(pkg.failures) :
        /\ pkg.failures[i].group = "security"
        /\ IndexOf(SEVERITY_RMAP, pkg.failures[i].severity) >= minimumSeverity

\* the loop body: TRUE when pkg reaches out.push(pkg)
FilterKeeps(pkg, o) ==
    /\ ~(o.filterCompliance /\ ~HasComplianceFailure(pkg))
    /\ (o.filterSecurity \/ o.filterLevel > 0)
          => HasSecurityFailure(pkg, o.filterLevel)

RECURSIVE FilterLoop(_, _, _, _)
FilterLoop(r, o, i, outp) ==
    IF i > Len(r) THEN outp
    ELSE IF FilterKeeps(r[i], o)
         THEN FilterLoop(r, o, i + 1, Append(outp, r[i]))
         ELSE FilterLoop(r, o, i + 1, outp)

filterReport(r, o) ==
    IF ~o.filterCompliance /\ ~o.filterSecurity /\ o.filterLevel = 0
    THEN r
    ELSE FilterLoop(r, o, 1, <<>>)

-----------------------------------------------------------------------------
(* moduleList: the L() calls it makes, in order *)

Row(pkg) ==
    [line |-> IF pkg.published THEN "row" ELSE "rowUnpublished",
     name |-> pkg.name, version |-> pkg.version]

Line(kind) == [line |-> kind, name |-> <<>>, version |-> <<>>]

TitleBand == <<Line("divider"), Line("title"), Line("divider")>>

\* column header, top border, one L() per record, bottom border after the
\* last record
TableBody(r) ==
    <<Line("columns"), Line("topBorder")>>
    \o [i \in 1..Len(r) |-> Row(r[i])]
    \o (IF Len(r) > 0 THEN <<Line("bottomBorder")>> ELSE <<>>)

\* variant: no early return on an empty filtered report
moduleListPrintsNoReturn(r, opt) ==
    LET sorted == moduleSort(r)
    IN  IF opt # <<>>
        THEN TitleBand \o TableBody(filterReport(sorted, opt[1]))
        ELSE TitleBand \o TableBody(sorted)

\* opt is <<>> when the options argument is undefined, <<o>> otherwise
moduleListPrints(r, opt) ==
    LET sorted == moduleSort(r)
    IN  IF opt # <<>>
        THEN (IF Len(filterReport(sorted, opt[1])) = 0
              THEN TitleBand
              ELSE TitleBand \o TableBody(filterReport(sorted, opt[1])))
        ELSE TitleBand \o TableBody(sorted)


-----------------------------------------------------------------------------
(* report(): whitelist, partition, emission *)

\* `${pkg.name}@${pkg.version}`
Key(pkg) == pkg.name \o <<64>> \o pkg.version

\* the try-block's two loops.  A policy is [iterable, entries]: iterable is
\* FALSE when policy.whitelist is null, so that the for-of over it throws.
\* Returns the Set as it stands when the loops end or throw.
RECURSIVE AddPolicies(_, _, _)
AddPolicies(policies, i, acc) ==
    IF i > Len(policies) \/ acc.threw THEN acc
    ELSE IF ~policies[i].iterable
         THEN [set |-> acc.set, threw |-> TRUE]
         ELSE AddPolicies(policies, i + 1,
                [set |-> acc.set \cup {Key(policies[i].entries[k]) :
                                         k \in 1..Len(policies[i].entries)},
                 threw |-> FALSE])

\* resp is what graphql() settles with: [rejected, policies]
FetchWhitelist(resp) ==
    IF resp.rejected THEN [set |-> {}, threw |-> TRUE]
    ELSE AddPolicies(resp.policies, 1, [set |-> {}, threw |-> FALSE])

\* variant: membership by package name alone, whatever the version
WhitelistedByName(wl, pkg) ==
    \E k \in wl : /\ Len(k) > Len(pkg.name)
                  /\ SubSeq(k, 1, Len(pkg.name) + 1) = pkg.name \o <<64>>

\* whitelist.has(`${pkg.name}@${pkg.version}`)
Whitelisted(wl, pkg) == Key(pkg) \in wl

\* the scoring collaborator (lib/report/score): a pure function of the
\* findings and maxSeverity into 0..100
score(scores, maxSeverity) ==
    LET failing == {i \in 1..Len(scores) : ~scores[i].pass}
    IN  IF failing = {} /\ maxSeverity = 0 THEN 100
        ELSE IF maxSeverity = 4 THEN 0
        ELSE 100 - 20 * maxSeverity

WithScore(rec) ==
    [name        |-> rec.name,
     version     |-> rec.version,
     published   |-> rec.published,
     maxSeverity |-> rec.maxSeverity,
     failures    |-> rec.failures,
     license     |-> rec.license,
     scores      |-> rec.scores,
     quantitativeScore |-> score(rec.scores, rec.maxSeverity)]

MapWithScore(recs) == [i \in 1..Len(recs) |-> WithScore(recs[i])]

\* the two filter().map() chains over the sorted list
WhitelistedPartition(sorted, wl) ==
    LET In(pkg) == Whitelisted(wl, pkg)
    IN  MapWithScore(SelectSeq(sorted, In))

FlaggedPartition(sorted, wl) ==
    LET NotIn(pkg) == ~Whitelisted(wl, pkg)
    IN  MapWithScore(SelectSeq(sorted, NotIn))

Emit(kind, flagged, wl) == [kind |-> kind, flagged |-> flagged, whitelisted |-> wl]

-----------------------------------------------------------------------------
(* Inputs *)

SeqsUpTo(S, n) == UNION {[1..k -> S] : k \in 0..n}

Finding(name, group, severity, pass) ==
    [name |-> name, group |-> group, severity |-> severity, pass |-> pass]

LicensePass     == Finding("license", "compliance", "NONE", TRUE)
LicenseFail     == Finding("license", "compliance", "NONE", FALSE)
LicenseUngrouped == Finding("license", "quality", "NONE", FALSE)
VulnLow         == Finding("vuln", "security", "LOW", FALSE)
VulnHigh        == Finding("vuln", "security", "HIGH", FALSE)
VulnCritical    == Finding("vuln", "security", "CRITICAL", FALSE)
VulnHighPassing == Finding("vuln", "security", "HIGH", TRUE)
RiskMedium      == Finding("deprecated", "risk", "MEDIUM", TRUE)

NameA  == <<97>>                          \* "a"
NameAb == <<97, 98>>                      \* "ab"
NameB  == <<98>>                          \* "b"
V100   == <<49, 46, 48, 46, 48>>          \* "1.0.0"
V120   == <<49, 46, 50, 46, 48>>          \* "1.2.0"
V1100  == <<49, 46, 49, 48, 46, 48>>      \* "1.10.0"
V120Pre == <<49, 46, 50, 46, 48, 45, 49>> \* "1.2.0-1"
V120Bld == <<49, 46, 50, 46, 48, 43, 49>> \* "1.2.0+1"
Falsy  == <<>>                            \* "", undefined, null

Pkg(name, version, published, scores) ==
    [name |-> name, version |-> version, published |-> published, scores |-> scores]

\* analyzer output of the run
RunIdents == {<<NameA, Falsy>>, <<NameA, V100>>, <<NameA, V1100>>}

RunScores ==
    { <<>>,
      <<LicensePass>>,
      <<LicenseFail>>,
      <<LicensePass, VulnHigh>> }

RunPackages == {Pkg(id[1], id[2], TRUE, sc) : id \in RunIdents, sc \in RunScores}

WhitelistEntry(name, version) == [name |-> name, version |-> version]

PolicyA  == [iterable |-> TRUE, entries |-> <<WhitelistEntry(NameA, V100)>>]
PolicyB  == [iterable |-> TRUE, entries |-> <<WhitelistEntry(NameB, V100)>>]
PolicyNull == [iterable |-> FALSE, entries |-> <<>>]

WhitelistResponses ==
    { [rejected |-> TRUE,  policies |-> <<>>],
      [rejected |-> FALSE, policies |-> <<>>],
      [rejected |-> FALSE, policies |-> <<PolicyA, PolicyB>>],
      [rejected |-> FALSE, policies |-> <<PolicyNull>>],
      [rejected |-> FALSE, policies |-> <<PolicyA, PolicyNull, PolicyB>>] }

\* reports handed to moduleSort: records as the loop builds them
SortPackages ==
    {Pkg(n, v, TRUE, sc) : n \in {NameA, NameAb},
                           v \in {V120, V1100, V120Pre, V120Bld},
                           sc \in {<<>>, <<LicensePass, RiskMedium>>}}

\* reports handed to moduleList and filterReport: scored records
ListScores ==
    { <<LicensePass>>,
      <<LicenseFail>>,
      <<LicensePass, VulnLow>>,
      <<LicensePass, VulnCritical>>,
      <<LicenseFail, VulnHigh>>,
      <<LicensePass, VulnHighPassing>>,
      <<LicenseUngrouped>> }

ListPackages ==
    {Pkg(n, V100, TRUE, sc) : n \in {NameA, NameB}, sc \in ListScores}
    \cup {Pkg(NameA, V120, FALSE, <<>>)}

RecordsOf(d) == BuildRecords(d, FALSE, 1, [records |-> <<>>, hasFailures |-> FALSE]).records

FilterOptions ==
    [filterCompliance : BOOLEAN, filterSecurity : BOOLEAN, filterLevel : 0..4]

-----------------------------------------------------------------------------
(* The report command *)

Idle == <<>>

RunIdle ==
    /\ argv = [json |-> FALSE, long |-> FALSE, help |-> FALSE]
    /\ env = [isNested |-> FALSE, githubMode |-> FALSE]
    /\ exitCode = 0
    /\ aborted = "no"
    /\ calls = {}
    /\ wlFailed = FALSE
    /\ whitelist = {}
    /\ data = <<>>
    /\ hasFailures = FALSE
    /\ ranked = <<>>
    /\ pkgScores = <<>>
    /\ whitelisted = <<>>
    /\ out = <<>>

UtilIdle ==
    /\ report = Idle
    /\ options = Idle
    /\ result = Idle
    /\ printed = Idle

Init ==
    /\ pc = "start"
    /\ argv \in [json : BOOLEAN, long : BOOLEAN, help : BOOLEAN]
    /\ env \in [isNested : BOOLEAN, githubMode : BOOLEAN]
    /\ exitCode = 0
    /\ aborted = "no"
    /\ calls = {}
    /\ wlFailed = FALSE
    /\ whitelist = {}
    /\ data = <<>>
    /\ hasFailures = FALSE
    /\ ranked = <<>>
    /\ pkgScores = <<>>
    /\ whitelisted = <<>>
    /\ out = <<>>
    /\ UtilIdle

\* entry: --help prints the help and returns; otherwise the header is
\* printed unless --json, and the identity lookup is awaited
Start ==
    /\ pc = "start"
    /\ IF argv.help
       THEN /\ out' = Append(out, Emit("help", <<>>, <<>>))
            /\ calls' = calls
            /\ pc' = "done"
       ELSE /\ out' = IF ~argv.json THEN Append(out, Emit("header", <<>>, <<>>))
                      ELSE out
            /\ calls' = calls \cup {"identity"}
            /\ pc' = "identity"
    /\ UNCHANGED <<argv, env, exitCode, aborted, wlFailed, whitelist, data,
                   hasFailures, ranked, pkgScores, whitelisted>>
    /\ UNCHANGED utilVars

\* the identity lookup settled; the whitelist query is dispatched
IdentityOk ==
    /\ pc = "identity"
    /\ calls' = calls \cup {"whitelist"}
    /\ pc' = "whitelist"
    /\ UNCHANGED <<argv, env, exitCode, aborted, wlFailed, whitelist, data, hasFailures,
                   ranked, pkgScores, whitelisted, out>>
    /\ UNCHANGED utilVars

\* variant: the catch of the identity lookup without its return
IdentityFailsNoReturn ==
    /\ pc = "identity"
    /\ out' = Append(out, Emit("error", <<>>, <<>>))
    /\ exitCode' = 1
    /\ aborted' = "identity"
    /\ calls' = calls \cup {"whitelist"}
    /\ pc' = "whitelist"
    /\ UNCHANGED <<argv, env, wlFailed, whitelist, data, hasFailures,
                   ranked, pkgScores, whitelisted>>
    /\ UNCHANGED utilVars

\* the catch of the identity lookup
IdentityFails ==
    /\ pc = "identity"
    /\ out' = Append(out, Emit("error", <<>>, <<>>))
    /\ exitCode' = 1
    /\ aborted' = "identity"
    /\ pc' = "done"
    /\ UNCHANGED <<argv, env, calls, wlFailed, whitelist, data, hasFailures,
                   ranked, pkgScores, whitelisted>>
    /\ UNCHANGED utilVars

\* the whitelist try/catch; the run goes on to the analyzer either way
WhitelistFetch ==
    /\ pc = "whitelist"
    /\ \E resp \in WhitelistResponses :
          LET r == FetchWhitelist(resp)
          IN  /\ whitelist' = r.set
              /\ wlFailed' = r.threw
              /\ out' = IF r.threw THEN Append(out, Emit("warning", <<>>, <<>>))
                        ELSE out
    /\ calls' = calls \cup {"analyze"}
    /\ pc' = "analyze"
    /\ UNCHANGED <<argv, env, exitCode, aborted, data, hasFailures, ranked, pkgScores,
                   whitelisted>>
    /\ UNCHANGED utilVars

\* the catch of analyze(): ENOENT or any other error
AnalyzerFails ==
    /\ pc = "analyze"
    /\ \E code \in {"ENOENT", "other"} :
          out' = Append(out, Emit("error", <<>>, <<>>))
    /\ exitCode' = 1
    /\ aborted' = "analyzer"
    /\ pc' = "done"
    /\ UNCHANGED <<argv, env, calls, wlFailed, whitelist, data, hasFailures,
                   ranked, pkgScores, whitelisted>>
    /\ UNCHANGED utilVars

\* what follows the partition: the JSON document and return, or the short
\* or long report, then the CI check when in CI, else the exit code
Dispatch(flagged, wl, failed) ==
    IF argv.json
    THEN /\ out' = Append(out, Emit("json", flagged, <<>>))
         /\ calls' = calls
         /\ exitCode' = exitCode
         /\ pc' = "done"
    ELSE LET shown == Append(out, Emit(IF argv.long THEN "long" ELSE "short",
                                       flagged, wl))
         IN  IF env.githubMode
             THEN /\ out' = Append(shown, Emit("ci", flagged, wl))
                  /\ calls' = calls \cup {"ci"}
                  /\ exitCode' = exitCode
                  /\ pc' = "ci"
             ELSE /\ out' = shown
                  /\ calls' = calls
                  /\ exitCode' = IF failed THEN 1 ELSE exitCode
                  /\ pc' = "done"

\* analyze() returned: build the records, sort, partition, emit
AnalyzerReturns ==
    /\ pc = "analyze"
    /\ \E d \in SeqsUpTo(RunPackages, MaxPkgs) :
          LET built  == BuildRecords(d, env.isNested, 1,
                                     [records |-> <<>>, hasFailures |-> FALSE])
              sorted == moduleSort(built.records)
              wl     == WhitelistedPartition(sorted, whitelist)
              flagged == FlaggedPartition(sorted, whitelist)
          IN  /\ data' = d
              /\ hasFailures' = built.hasFailures
              /\ ranked' = sorted
              /\ whitelisted' = wl
              /\ pkgScores' = flagged
              /\ Dispatch(flagged, wl, built.hasFailures)
    /\ UNCHANGED <<argv, env, aborted, wlFailed, whitelist>>
    /\ UNCHANGED utilVars

\* the awaited CI check settles; then the exit code is set
CICheckSettles ==
    /\ pc = "ci"
    /\ exitCode' = IF hasFailures THEN 1 ELSE exitCode
    /\ pc' = "done"
    /\ UNCHANGED <<argv, env, aborted, calls, wlFailed, whitelist, data,
                   hasFailures, ranked, pkgScores, whitelisted, out>>
    /\ UNCHANGED utilVars

Next ==
    \/ Start
    \/ IdentityOk
    \/ IdentityFails
    \/ WhitelistFetch
    \/ AnalyzerFails
    \/ AnalyzerReturns
    \/ CICheckSettles

Spec == Init /\ [][Next]_vars

-----------------------------------------------------------------------------
(* moduleSort on its own *)

InitSort ==
    /\ pc = "sortReady"
    /\ RunIdle
    /\ report \in {RecordsOf(d) : d \in SeqsUpTo(SortPackages, MaxSortLen)}
    /\ options = Idle
    /\ result = Idle
    /\ printed = Idle

\* moduleSort(report): sorts the array in place and returns it
CallModuleSort ==
    /\ pc = "sortReady"
    /\ report' = moduleSort(report)
    /\ result' = [input |-> report, returned |-> moduleSort(report)]
    /\ pc' = "sorted"
    /\ UNCHANGED <<options, printed>>
    /\ UNCHANGED runVars

\* moduleSort applied to the array it already sorted
CallModuleSortAgain ==
    /\ pc = "sorted"
    /\ report' = moduleSort(report)
    /\ result' = [input |-> report, returned |-> moduleSort(report)]
    /\ pc' = "resorted"
    /\ UNCHANGED <<options, printed>>
    /\ UNCHANGED runVars

NextSort == CallModuleSort \/ CallModuleSortAgain

SpecSort == InitSort /\ [][NextSort]_vars

-----------------------------------------------------------------------------
(* filterReport and moduleList on their own *)

InitList ==
    /\ pc = "listReady"
    /\ RunIdle
    /\ report \in {MapWithScore(RecordsOf(d)) : d \in SeqsUpTo(ListPackages, MaxListLen)}
    /\ options \in {<<>>} \cup {<<o>> : o \in FilterOptions}
    /\ result = Idle
    /\ printed = Idle

\* filterReport(report, options)
CallFilterReport ==
    /\ pc = "listReady"
    /\ options # <<>>
    /\ result' = filterReport(report, options[1])
    /\ pc' = "filtered"
    /\ UNCHANGED <<report, options, printed>>
    /\ UNCHANGED runVars

\* moduleList(report, title, options): sorts the caller's array in place
\* and prints
CallModuleList ==
    /\ pc = "listReady"
    /\ printed' = moduleListPrints(report, options)
    /\ report' = moduleSort(report)
    /\ pc' = "listed"
    /\ UNCHANGED <<options, result>>
    /\ UNCHANGED runVars

NextList == CallFilterReport \/ CallModuleList

SpecList == InitList /\ [][NextList]_vars


-----------------------------------------------------------------------------
(* Vocabulary of the properties *)

\* severity rank, NONE=0 .. CRITICAL=4
Rank(severity) ==
    CASE severity = "NONE" -> 0
      [] severity = "LOW" -> 1
      [] severity = "MEDIUM" -> 2
      [] severity = "HIGH" -> 3
      [] severity = "CRITICAL" -> 4

InCountedGroup(f) == f.group \in {"compliance", "security", "risk"}

\* maximum rank over the counted findings, 0 when there are none
MaxCountedRank(scores) ==
    LET ranks == {Rank(scores[i].severity) :
                    i \in {j \in 1..Len(scores) : InCountedGroup(scores[j])}}
    IN  IF ranks = {} THEN 0 ELSE CHOOSE m \in ranks : \A n \in ranks : n <= m

HasFailingLicense(scores) ==
    \E i \in 1..Len(scores) : scores[i].name = "license" /\ scores[i].pass = FALSE

HasFailingFinding(pkg) ==
    \E i \in 1..Len(pkg.scores) :
        InCountedGroup(pkg.scores[i]) /\ pkg.scores[i].pass = FALSE

Elems(seq) == {seq[i] : i \in 1..Len(seq)}

\* every record the run put into a partition or handed to an output
Emitted ==
    Elems(pkgScores) \cup Elems(whitelisted)
    \cup UNION {Elems(out[i].flagged) \cup Elems(out[i].whitelisted) : i \in 1..Len(out)}

Kinds == {out[i].kind : i \in 1..Len(out)}

ReportKinds == {"json", "short", "long"}

Finished == pc = "done" /\ Kinds \cap ReportKinds # {}

\* the records the loop kept, in ranked order, as the partition step saw them
Kept == ranked

Unscored(r) ==
    [name |-> r.name, version |-> r.version, published |-> r.published,
     maxSeverity |-> r.maxSeverity, failures |-> r.failures,
     license |-> r.license, scores |-> r.scores]

Count(seq, x) == Cardinality({i \in 1..Len(seq) : seq[i] = x})

\* the ranking rule on two neighbours
InRankOrder(a, b) ==
    /\ a.maxSeverity >= b.maxSeverity
    /\ a.maxSeverity = b.maxSeverity => ~StrLt(b.name, a.name)
    /\ (a.maxSeverity = b.maxSeverity /\ a.name = b.name)
          => SemverCompare(a.version, b.version) <= 0

Ranked(seq) == \A i \in 1..(Len(seq) - 1) : InRankOrder(seq[i], seq[i + 1])

-----------------------------------------------------------------------------
(* C1 *)

\* C1 (as claimed): every record the run builds has maxSeverity equal to
\* the maximum rank over its counted findings, or CRITICAL when the package
\* has a failing license finding; absent or passing license keeps the maximum.
C1_MaxSeverityRule ==
    \A r \in Emitted :
        r.maxSeverity = IF HasFailingLicense(r.scores) THEN 4
                        ELSE MaxCountedRank(r.scores)

-----------------------------------------------------------------------------
(* C2 *)

\* C2 (as claimed): when the run has ended after identity lookup and
\* analyzer both succeeded and some package has a failing counted finding,
\* the exit code is nonzero, in every output mode.
C2_ExitCodeOnFailure ==
    (pc = "done" /\ aborted = "no" /\ \E i \in 1..Len(data) : HasFailingFinding(data[i]))
        => exitCode # 0

-----------------------------------------------------------------------------
(* C3 *)

\* C3: after an identity failure the exit code is nonzero, the run is over
\* and neither the whitelist fetch nor the analyzer was dispatched; after an
\* analyzer failure the exit code is nonzero and the run is over; in both
\* cases no report (JSON, short, long) was emitted and the CI check was not
\* invoked.
C3_FatalErrorsStopTheRun ==
    /\ aborted = "identity"
          => /\ exitCode # 0
             /\ pc = "done"
             /\ calls \cap {"whitelist", "analyze"} = {}
    /\ aborted = "analyzer" => (exitCode # 0 /\ pc = "done")
    /\ aborted # "no"
          => /\ Kinds \cap (ReportKinds \cup {"ci"}) = {}
             /\ "ci" \notin calls
             /\ pkgScores = <<>> /\ whitelisted = <<>>

C3_Witness ==
    /\ aborted = "analyzer"
    /\ pc = "done"
    /\ whitelist # {}
    /\ "header" \in Kinds

-----------------------------------------------------------------------------
(* C4 *)

\* C4 (as claimed): when the whitelist fetch fails at any point, the run
\* still dispatches the analyzer, the whitelist used for partitioning is
\* empty, and so is the whitelisted partition: every kept record is flagged.
C4_FailedFetchLeavesEmptyWhitelist ==
    wlFailed
        => /\ "analyze" \in calls
           /\ whitelist = {}
           /\ whitelisted = <<>>
           /\ Finished => Len(pkgScores) = Len(Kept)

-----------------------------------------------------------------------------
(* C5 *)

\* C5: after the partition step every kept record is in exactly one
\* partition, the whitelisted one if and only if its name@version string is
\* a member of the whitelist; each partition is in ranked order.
C5_PartitionByExactKey ==
    (pc \in {"ci", "done"} /\ aborted = "no" /\ ~argv.help)
        => /\ \A r \in Elems(whitelisted) : r.name \o <<64>> \o r.version \in whitelist
           /\ \A r \in Elems(pkgScores) : r.name \o <<64>> \o r.version \notin whitelist
           /\ \A k \in Elems(Kept) :
                 LET inW == Cardinality({i \in 1..Len(whitelisted) :
                                           Unscored(whitelisted[i]) = k})
                     inF == Cardinality({i \in 1..Len(pkgScores) :
                                           Unscored(pkgScores[i]) = k})
                 IN  /\ inW + inF = Count(Kept, k)
                     /\ inW = 0 \/ inF = 0
           /\ Len(whitelisted) + Len(pkgScores) = Len(Kept)
           /\ Ranked(whitelisted)
           /\ Ranked(pkgScores)

C5_Witness ==
    /\ pc = "done"
    /\ Len(whitelisted) = 1
    /\ Len(pkgScores) = 1
    /\ whitelisted[1].name = pkgScores[1].name
    /\ whitelisted[1].maxSeverity < pkgScores[1].maxSeverity

-----------------------------------------------------------------------------
(* C6 *)

\* C6: moduleSort returns a permutation of its input in which neighbours
\* are in rank order (maxSeverity descending, then name ascending, then
\* version ascending by semver precedence); sorting an already sorted
\* report leaves the order unchanged.
C6_SortRanksAndIsIdempotent ==
    /\ pc \in {"sorted", "resorted"}
          => /\ \A x \in Elems(result.input) \cup Elems(result.returned) :
                    Count(result.input, x) = Count(result.returned, x)
             /\ Len(result.returned) = Len(result.input)
             /\ Ranked(result.returned)
             /\ report = result.returned
    /\ pc = "resorted" => result.returned = result.input

C6_Witness ==
    /\ pc = "resorted"
    /\ Len(report) >= 3
    /\ \E i \in 1..(Len(report) - 1) :
          /\ report[i].maxSeverity = report[i + 1].maxSeverity
          /\ report[i].name = report[i + 1].name
          /\ report[i].version = V120
          /\ report[i + 1].version = V1100
    /\ \E i \in 1..(Len(report) - 1) :
          report[i].maxSeverity > report[i + 1].maxSeverity

-----------------------------------------------------------------------------
(* C7 *)

\* the two legs of the filter, as the claim words them
ComplianceLeg(r, o) ==
    ~o.filterCompliance
    \/ \E i \in 1..Len(r.scores) :
          r.scores[i].group = "compliance" /\ r.scores[i].pass = FALSE

SecurityLeg(r, o) ==
    (~o.filterSecurity /\ o.filterLevel = 0)
    \/ \E i \in 1..Len(r.failures) :
          /\ r.failures[i].group = "security"
          /\ Rank(r.failures[i].severity) >= o.filterLevel

Accepted(rep, o) ==
    LET Both(r) == ComplianceLeg(r, o) /\ SecurityLeg(r, o) IN SelectSeq(rep, Both)

\* C7: filterReport keeps exactly the records both legs accept, in input
\* order; with no option set it returns the report unchanged; with
\* filterLevel CRITICAL every kept record has a CRITICAL security failure.
C7_FilterKeepsBothLegs ==
    pc = "filtered"
        => /\ result = Accepted(report, options[1])
           /\ (~options[1].filterCompliance /\ ~options[1].filterSecurity
                 /\ options[1].filterLevel = 0) => result = report
           /\ options[1].filterLevel = 4
                 => \A r \in Elems(result) :
                       \E f \in Elems(r.failures) :
                           f.group = "security" /\ f.severity = "CRITICAL"

C7_Witness ==
    /\ pc = "filtered"
    /\ options[1].filterCompliance
    /\ options[1].filterLevel = 3
    /\ Len(report) = 2
    /\ Len(result) = 1
    /\ result[1] = report[2]
    /\ \E f \in Elems(report[1].failures) : f.group = "security"

-----------------------------------------------------------------------------
(* C8 *)

\* C8: no record with a falsy version is in either partition or in any
\* emitted output (JSON document, short or long report, CI-check input).
C8_NoVersionNeverEmitted ==
    \A r \in Emitted : r.version # <<>>

C8_Witness ==
    /\ Finished
    /\ "ci" \in Kinds
    /\ Len(data) = 2
    /\ data[1].version = <<>>
    /\ data[2].version # <<>>
    /\ Len(pkgScores) = 1

-----------------------------------------------------------------------------
(* C9 *)

NothingAccepted == options # <<>> /\ Accepted(report, options[1]) = <<>>

\* C9 (as claimed): when the report is empty after sorting and filtering,
\* moduleList prints nothing at all.
C9_EmptyReportPrintsNothing ==
    (pc = "listed" /\ NothingAccepted) => printed = <<>>

\* C9 (amended): when options are given and the report is empty after
\* sorting and filtering, moduleList prints the divider, the title and the
\* divider and nothing else: no column header, no row, no footer rule.
C9_EmptyReportPrintsTitleOnly ==
    (pc = "listed" /\ NothingAccepted)
        => /\ Len(printed) = 3
           /\ printed[1].line = "divider"
           /\ printed[2].line = "title"
           /\ printed[3].line = "divider"

C9_Witness ==
    /\ pc = "listed"
    /\ NothingAccepted
    /\ Len(report) = 2
    /\ options[1].filterCompliance
    /\ ~options[1].filterSecurity

-----------------------------------------------------------------------------
(* C10 *)

Versioned == {i \in 1..Len(data) : data[i].version # <<>>}

\* C10 (as claimed): under self-reference every record in either partition
\* has maxSeverity NONE; without self-reference no record is dropped for
\* its severity.
C10_SelfReferenceKeepsOnlyNone ==
    (pc \in {"ci", "done"} /\ aborted = "no" /\ ~argv.help)
        => /\ env.isNested
                => \A r \in Elems(pkgScores) \cup Elems(whitelisted) : r.maxSeverity = 0
           /\ ~env.isNested
                => Len(pkgScores) + Len(whitelisted) = Cardinality(Versioned)


====
